---- MODULE Spec2Model ----
(***************************************************************************)
(* Generative-art generators of genuary-2026, as one state machine.        *)
(* Each behaviour runs one generator (chosen by prog in the initial        *)
(* state) on inputs drawn from small sets:                                 *)
(*   "tween"  _tween_poses              (prompt2/animate_v2.py)            *)
(*   "draw"   _draw_pattern             (prompt1/one_shape_one_color.py)   *)
(*   "bounce" _generate_bounce_frames   (prompt2/animate_v3.py)            *)
(*   "all"    _generate_all_frames      (prompt2/animate_v3.py)            *)
(*   "sample" sample_points_on_segments (prompt5/genuary_swarm.py)         *)
(*   "swarm"  create_swarm_gif          (prompt5/genuary_swarm.py)         *)
(*   "sun"    create_sun_frame          (prompt7/boolean_algebra.py)       *)
(*   "anim"   animate_boolean_sun_gradient (prompt7/boolean_algebra.py)    *)
(* A generator that has returned is called a second time with the same     *)
(* arguments (call = 2); `previous` keeps what the first call returned.    *)
(* Python floats are modelled as exact rationals <<num, den>> (den > 0,    *)
(* lowest terms); square roots are kept symbolic and compared by squaring. *)
(***************************************************************************)
EXTENDS Integers, Sequences, FiniteSets, TLC

VARIABLES prog, pc, call, previous,
          poses, steps_between, frames, i, step,
          radius, max_iterations, shrink_fraction, patches, stack,
          x_start, x_end, peak_height, air_steps, include_squash,
          bounce_frames, bounce_i, all_frames, bounce_k,
          segments, points_per_segment, thickness, rails, all_points, seg_i, stacked,
          n_frames, jitter, targets, starts, jittered_targets, all_positions, frame_idx,
          stream, rng_pos,
          width, height, suns, current_radius_factor, img, sun_i, pix,
          frame_count, anim_idx, anim_frames

callVars == <<call, previous>>
tweenVars == <<poses, steps_between, frames, i, step>>
drawVars == <<radius, max_iterations, shrink_fraction, patches, stack>>
bounceVars == <<x_start, x_end, peak_height, air_steps, include_squash,
                bounce_frames, bounce_i>>
allVars == <<all_frames, bounce_k>>
sampleVars == <<segments, points_per_segment, thickness, rails, all_points, seg_i, stacked>>
swarmVars == <<n_frames, jitter, targets, starts, jittered_targets, all_positions, frame_idx,
               stream, rng_pos>>
sunVars == <<width, height, suns, current_radius_factor, img, sun_i, pix>>
animVars == <<frame_count, anim_idx, anim_frames>>

vars == <<prog, pc, callVars, tweenVars, drawVars, bounceVars, allVars, sampleVars, swarmVars,
          sunVars, animVars>>

nonTween == <<drawVars, bounceVars, allVars, sampleVars, swarmVars, sunVars, animVars>>
nonDraw == <<tweenVars, bounceVars, allVars, sampleVars, swarmVars, sunVars, animVars>>
nonBounce == <<tweenVars, drawVars, allVars, sampleVars, swarmVars, sunVars, animVars>>
nonAll == <<tweenVars, drawVars, sampleVars, swarmVars, sunVars, animVars>>
nonSample == <<tweenVars, drawVars, bounceVars, allVars, swarmVars, sunVars, animVars>>
nonSwarm == <<tweenVars, drawVars, bounceVars, allVars, sampleVars, sunVars, animVars>>
nonSun == <<tweenVars, drawVars, bounceVars, allVars, sampleVars, swarmVars, animVars>>
nonAnim == <<tweenVars, drawVars, bounceVars, allVars, sampleVars, swarmVars>>

(***************************************************************************)
(* Bounds of the model.                                                    *)
(***************************************************************************)
MaxPoses == 3
MaxSteps == 4
MaxIter == 2
MaxAir == 4
MaxSegs == 2
MaxPts == 3
MaxRails == 3
MaxParticles == 2
MaxFrames == 3
MaxDim == 3
MaxSuns == 2

(***************************************************************************)
(* Exact rational arithmetic standing for Python float arithmetic.         *)
(***************************************************************************)
Abs(n) == IF n < 0 THEN -n ELSE n

RECURSIVE GCD(_, _)
GCD(a, b) == IF b = 0 THEN a ELSE GCD(b, a % b)

Rat(n, d) ==
    LET g == GCD(Abs(n), Abs(d))
        s == IF d < 0 THEN -1 ELSE 1
    IN  <<(s * n) \div g, (s * d) \div g>>

R(n) == <<n, 1>>

RAdd(a, b) == Rat(a[1] * b[2] + b[1] * a[2], a[2] * b[2])
RSub(a, b) == Rat(a[1] * b[2] - b[1] * a[2], a[2] * b[2])
RMul(a, b) == Rat(a[1] * b[1], a[2] * b[2])
RDiv(a, b) == Rat(a[1] * b[2], a[2] * b[1])
RLe(a, b) == a[1] * b[2] <= b[1] * a[2]
RLt(a, b) == a[1] * b[2] < b[1] * a[2]

(***************************************************************************)
(* Variables of the generators that do not run in a behaviour stay at      *)
(* these values.                                                           *)
(***************************************************************************)
TweenIdle ==
    /\ poses = <<>> /\ steps_between = 0 /\ frames = <<>> /\ i = 0 /\ step = 0

DrawIdle ==
    /\ radius = R(0) /\ max_iterations = 0 /\ shrink_fraction = R(0)
    /\ patches = <<>> /\ stack = <<>>

BounceIdle ==
    /\ x_start = R(0) /\ x_end = R(0) /\ peak_height = R(0) /\ air_steps = 0
    /\ include_squash = FALSE /\ bounce_frames = <<>> /\ bounce_i = 0

AllIdle ==
    /\ all_frames = <<>> /\ bounce_k = 0

SampleIdle ==
    /\ segments = <<>> /\ points_per_segment = 0 /\ thickness = R(0) /\ rails = 0
    /\ all_points = <<>> /\ seg_i = 0 /\ stacked = <<>>

SwarmIdle ==
    /\ n_frames = 0 /\ jitter = R(0) /\ targets = <<>> /\ starts = <<>>
    /\ jittered_targets = <<>> /\ all_positions = <<>> /\ frame_idx = 0
    /\ stream = <<>> /\ rng_pos = 0

SunIdle ==
    /\ width = 0 /\ height = 0 /\ suns = <<>> /\ current_radius_factor = R(0)
    /\ img = <<>> /\ sun_i = 0 /\ pix = 0

AnimIdle ==
    /\ frame_count = 0 /\ anim_idx = 0 /\ anim_frames = <<>>

(***************************************************************************)
(* prompt2/animate_v2.py                                                   *)
(***************************************************************************)
circle(x, y) == [x |-> R(x), y |-> R(y), sx |-> R(1), sy |-> R(1)]
v_stretch(x, y) == [x |-> R(x), y |-> R(y), sx |-> Rat(4, 5), sy |-> Rat(6, 5)]
h_squash(x, y) == [x |-> R(x), y |-> R(y), sx |-> Rat(7, 5), sy |-> Rat(3, 5)]

\* Key poses the inputs are drawn from: poses 1, 4 and 5 of _key_poses.
KeyPoses == {circle(1, 9), v_stretch(5, 3), h_squash(6, 0)}

SeqsUpTo(S, n) == UNION {[1..k -> S] : k \in 0..n}

\* Faulty variant: linear interpolation, no easing.
_ease_in_out_linear(t) == t

\* t * t * (3 - 2 * t)
_ease_in_out(t) == RMul(RMul(t, t), RSub(R(3), RMul(R(2), t)))

\* p0[f] + (p1[f] - p0[f]) * te
Lerp(a, b, te) == RAdd(a, RMul(RSub(b, a), te))

\* Faulty variant: the two scales are interpolated linearly, without easing.
TweenFrame_linear_scale(p0, p1, st, sb) ==
    LET t == Rat(st, sb + 1)
        te == _ease_in_out(t)
    IN  [x |-> Lerp(p0.x, p1.x, te),
         y |-> Lerp(p0.y, p1.y, te),
         sx |-> Lerp(p0.sx, p1.sx, t),
         sy |-> Lerp(p0.sy, p1.sy, t)]

\* Body of the inner loop of _tween_poses: the in-between pose for `st`.
TweenFrame(p0, p1, st, sb) ==
    LET t == Rat(st, sb + 1)
        te == _ease_in_out(t)
    IN  [x |-> Lerp(p0.x, p1.x, te),
         y |-> Lerp(p0.y, p1.y, te),
         sx |-> Lerp(p0.sx, p1.sx, te),
         sy |-> Lerp(p0.sy, p1.sy, te)]

TweenInit ==
    /\ prog = "tween"
    /\ pc = "start"
    /\ poses \in SeqsUpTo(KeyPoses, MaxPoses)
    /\ steps_between \in 0..MaxSteps
    /\ frames = <<>>
    /\ i = 0
    /\ step = 0
    /\ DrawIdle /\ BounceIdle /\ AllIdle /\ SampleIdle /\ SwarmIdle /\ SunIdle /\ AnimIdle

\* if not poses: return []
TweenEmpty ==
    /\ prog = "tween" /\ pc = "start"
    /\ poses = <<>>
    /\ frames' = <<>>
    /\ pc' = "done"
    /\ UNCHANGED <<prog, poses, steps_between, i, step, nonTween, callVars>>

\* frames = [poses[0]], then enter the outer loop at i = 0
TweenFirst ==
    /\ prog = "tween" /\ pc = "start"
    /\ poses # <<>>
    /\ frames' = <<poses[1]>>
    /\ i' = 0
    /\ step' = 1
    /\ pc' = "loop"
    /\ UNCHANGED <<prog, poses, steps_between, nonTween, callVars>>

\* Faulty variant: the in-between poses of a pair are emitted in decreasing step.
TweenStep_reversed ==
    /\ prog = "tween" /\ pc = "loop"
    /\ i < Len(poses) - 1
    /\ step <= steps_between
    /\ frames' = Append(frames, TweenFrame(poses[i + 1], poses[i + 2],
                                           steps_between + 1 - step, steps_between))
    /\ step' = step + 1
    /\ UNCHANGED <<prog, pc, poses, steps_between, i, nonTween, callVars>>

\* one iteration of: for step in range(1, steps_between + 1)
TweenStep ==
    /\ prog = "tween" /\ pc = "loop"
    /\ i < Len(poses) - 1
    /\ step <= steps_between
    /\ frames' = Append(frames, TweenFrame(poses[i + 1], poses[i + 2], step, steps_between))
    /\ step' = step + 1
    /\ UNCHANGED <<prog, pc, poses, steps_between, i, nonTween, callVars>>

\* Faulty variant: p1 is not appended after its in-between poses.
TweenKey_dropped ==
    /\ prog = "tween" /\ pc = "loop"
    /\ i < Len(poses) - 1
    /\ step > steps_between
    /\ i' = i + 1
    /\ step' = 1
    /\ UNCHANGED <<prog, pc, poses, steps_between, frames, nonTween, callVars>>

\* frames.append(p1), then the next iteration of: for i in range(len(poses) - 1)
TweenKey ==
    /\ prog = "tween" /\ pc = "loop"
    /\ i < Len(poses) - 1
    /\ step > steps_between
    /\ frames' = Append(frames, poses[i + 2])
    /\ i' = i + 1
    /\ step' = 1
    /\ UNCHANGED <<prog, pc, poses, steps_between, nonTween, callVars>>

\* return frames
TweenReturn ==
    /\ prog = "tween" /\ pc = "loop"
    /\ i >= Len(poses) - 1
    /\ pc' = "done"
    /\ UNCHANGED <<prog, poses, steps_between, frames, i, step, nonTween, callVars>>

\* A second call of _tween_poses with the same arguments
TweenAgain ==
    /\ prog = "tween" /\ pc = "done" /\ call = 1
    /\ previous' = frames
    /\ call' = 2
    /\ frames' = <<>>
    /\ i' = 0
    /\ step' = 0
    /\ pc' = "start"
    /\ UNCHANGED <<prog, poses, steps_between, nonTween>>

(***************************************************************************)
(* Properties of _tween_poses                                              *)
(***************************************************************************)
TweenDone == prog = "tween" /\ pc = "done"

\* C1: n >= 1 key poses and steps_between >= 0 give exactly
\* 1 + (n-1)*(steps_between+1) poses; an empty list of key poses gives an
\* empty list, and the call returns without an error.
C1_TweenLength ==
    TweenDone /\ steps_between >= 0 =>
        IF Len(poses) = 0
        THEN frames = <<>>
        ELSE Len(frames) = 1 + (Len(poses) - 1) * (steps_between + 1)

C1_Witness ==
    /\ TweenDone
    /\ Len(poses) = 3
    /\ steps_between = 2
    /\ Len(frames) = 7

Midpoint(a, b) == RDiv(RAdd(a, b), R(2))

\* C2 as stated: with two key poses and steps_between = 4 the output has 6
\* poses and the 3rd one is the midpoint of p0 and p1 in x and y.
C2_ThirdIsMidpoint ==
    TweenDone /\ Len(poses) = 2 /\ steps_between = 4 =>
        /\ Len(frames) = 6
        /\ frames[3].x = Midpoint(poses[1].x, poses[2].x)
        /\ frames[3].y = Midpoint(poses[1].y, poses[2].y)

\* C2 amended: with two key poses and steps_between = 4 the output has 6
\* poses and the 3rd one is taken at t = 2/5, where ease(2/5) = 44/125, so
\* its x and y are p0 + (p1 - p0) * 44/125.
C2_ThirdAtTwoFifths ==
    TweenDone /\ Len(poses) = 2 /\ steps_between = 4 =>
        /\ Len(frames) = 6
        /\ frames[3].x = RAdd(poses[1].x, RMul(RSub(poses[2].x, poses[1].x), <<44, 125>>))
        /\ frames[3].y = RAdd(poses[1].y, RMul(RSub(poses[2].y, poses[1].y), <<44, 125>>))

C2_Witness ==
    /\ TweenDone
    /\ poses = <<circle(1, 9), h_squash(6, 0)>>
    /\ steps_between = 4
    /\ frames[3].x = <<69, 25>>
    /\ frames[3].y = <<729, 125>>

\* C10: the first key pose is the first output element, the k-th key pose
\* (0-based) is the element at index k*(steps_between+1), unchanged, and
\* between two consecutive key poses lie exactly steps_between in-between
\* poses in increasing order of step.
C10_KeyPosePlacement ==
    TweenDone /\ poses # <<>> /\ steps_between >= 0 =>
        /\ frames[1] = poses[1]
        /\ \A k \in 0..(Len(poses) - 1) :
              /\ k * (steps_between + 1) + 1 \in DOMAIN frames
              /\ frames[k * (steps_between + 1) + 1] = poses[k + 1]
        /\ \A k \in 0..(Len(poses) - 2) : \A s \in 1..steps_between :
              frames[k * (steps_between + 1) + 1 + s] =
                  TweenFrame(poses[k + 1], poses[k + 2], s, steps_between)

C10_Witness ==
    /\ TweenDone
    /\ poses = <<circle(1, 9), v_stretch(5, 3), h_squash(6, 0)>>
    /\ steps_between = 2
    /\ frames[1] = circle(1, 9)
    /\ frames[4] = v_stretch(5, 3)
    /\ frames[7] = h_squash(6, 0)
    /\ frames[2].x = <<55, 27>>
    /\ frames[3].x = <<107, 27>>

\* ease(t) = t*t*(3 - 2*t) = 3*t^2 - 2*t^3
Smoothstep(t) == RSub(RMul(R(3), RMul(t, t)), RMul(R(2), RMul(t, RMul(t, t))))

Fields == {"x", "y", "sx", "sy"}

\* C14: the in-between pose at step s (1 <= s <= steps_between) between the
\* key poses p0 and p1 has every field f of x, y, sx, sy equal to
\* p0[f] + (p1[f] - p0[f]) * ease(s/(steps_between+1)), with
\* ease(t) = t*t*(3 - 2*t); ease(0) = 0 and ease(1) = 1.
C14_EasedFields ==
    /\ _ease_in_out(R(0)) = R(0)
    /\ _ease_in_out(R(1)) = R(1)
    /\ TweenDone /\ poses # <<>> =>
          \A k \in 0..(Len(poses) - 2) : \A s \in 1..steps_between : \A f \in Fields :
              LET p0 == poses[k + 1]
                  p1 == poses[k + 2]
                  e == Smoothstep(Rat(s, steps_between + 1))
              IN  frames[k * (steps_between + 1) + 1 + s][f] =
                      RAdd(p0[f], RMul(RSub(p1[f], p0[f]), e))

\* steps_between = 3 between circle(1, 9) and h_squash(6, 0): the first
\* in-between pose is at ease(1/4) = 5/32 in every field (not at 1/4).
C14_Witness ==
    /\ TweenDone
    /\ poses = <<circle(1, 9), h_squash(6, 0)>>
    /\ steps_between = 3
    /\ frames[2] = [x |-> Rat(57, 32), y |-> Rat(243, 32),
                    sx |-> Rat(17, 16), sy |-> Rat(15, 16)]

(***************************************************************************)
(* prompt1/one_shape_one_color.py                                          *)
(* A coordinate is a + b*sqrt(2) with a, b rational, kept as [a, b].       *)
(***************************************************************************)
Surd(a, b) == [a |-> a, b |-> b]
SAdd(u, v) == Surd(RAdd(u.a, v.a), RAdd(u.b, v.b))
SSub(u, v) == Surd(RSub(u.a, v.a), RSub(u.b, v.b))

\* side = r * (2 ** 0.5); half_side = side / 2
half_side(r) == Surd(R(0), RDiv(r, R(2)))

\* smaller_r = r * shrink_fraction
smaller_r(r) == RMul(r, shrink_fraction)

\* Faulty variant: the children are centred on the sides of the inscribed
\* square, the child radius is not added to the offset.
centers_on_square(cx, cy, r) ==
    LET o == half_side(r)
    IN  << <<SSub(cx, o), cy>>,
           <<SAdd(cx, o), cy>>,
           <<cx, SSub(cy, o)>>,
           <<cx, SAdd(cy, o)>> >>

\* The list `centers` of _draw_recursive.
centers(cx, cy, r) ==
    LET o == SAdd(half_side(r), Surd(smaller_r(r), R(0)))
    IN  << <<SSub(cx, o), cy>>,
           <<SAdd(cx, o), cy>>,
           <<cx, SSub(cy, o)>>,
           <<cx, SAdd(cy, o)>> >>

\* Faulty variant: the recursion stops one level too late.
Terminal_late(iteration) == iteration > max_iterations

\* if iteration >= max_iterations: return
Terminal(iteration) == iteration >= max_iterations

\* A pending call _draw_recursive(cx, cy, r, iteration); k is the position in
\* its body: 0 at entry, 1..4 the next child of the for loop, 5 after it.
Call(cx, cy, r, iteration) ==
    [cx |-> cx, cy |-> cy, r |-> r, iteration |-> iteration, k |-> 0]

Top == stack[Len(stack)]
Pop == SubSeq(stack, 1, Len(stack) - 1)
SetTopK(k) == [stack EXCEPT ![Len(stack)].k = k]

DrawInit ==
    /\ prog = "draw"
    /\ pc = "start"
    /\ radius \in {R(-1), R(2)}
    /\ max_iterations \in -1..MaxIter
    /\ shrink_fraction \in {Rat(7, 10), Rat(3, 2)}
    /\ patches = <<>>
    /\ stack = <<>>
    /\ TweenIdle /\ BounceIdle /\ AllIdle /\ SampleIdle /\ SwarmIdle /\ SunIdle /\ AnimIdle

\* _draw_pattern: _draw_recursive(center_x, center_y, radius, 0), called by
\* draw_one_shape_one_color with the centre (0.0, 0.0)
DrawPattern ==
    /\ prog = "draw" /\ pc = "start"
    /\ stack' = <<Call(Surd(R(0), R(0)), Surd(R(0), R(0)), radius, 0)>>
    /\ pc' = "run"
    /\ UNCHANGED <<prog, radius, max_iterations, shrink_fraction, patches, nonDraw, callVars>>

\* Entry of _draw_recursive: add the circle, return at the terminal depth
DrawCircle ==
    /\ prog = "draw" /\ pc = "run"
    /\ stack # <<>>
    /\ Top.k = 0
    /\ patches' = Append(patches, [cx |-> Top.cx, cy |-> Top.cy, r |-> Top.r,
                                   iteration |-> Top.iteration])
    /\ stack' = IF Terminal(Top.iteration) THEN Pop ELSE SetTopK(1)
    /\ UNCHANGED <<prog, pc, radius, max_iterations, shrink_fraction, nonDraw, callVars>>

\* Faulty variant: the children are called with the depth of their parent.
DrawRecurse_same_depth ==
    /\ prog = "draw" /\ pc = "run"
    /\ stack # <<>>
    /\ Top.k \in 1..4
    /\ LET c == centers(Top.cx, Top.cy, Top.r)[Top.k]
       IN  stack' = Append(SetTopK(Top.k + 1),
                           Call(c[1], c[2], smaller_r(Top.r), Top.iteration))
    /\ UNCHANGED <<prog, pc, radius, max_iterations, shrink_fraction, patches, nonDraw, callVars>>

\* for (nx, ny) in centers: _draw_recursive(nx, ny, smaller_r, iteration + 1)
DrawRecurse ==
    /\ prog = "draw" /\ pc = "run"
    /\ stack # <<>>
    /\ Top.k \in 1..4
    /\ LET c == centers(Top.cx, Top.cy, Top.r)[Top.k]
       IN  stack' = Append(SetTopK(Top.k + 1),
                           Call(c[1], c[2], smaller_r(Top.r), Top.iteration + 1))
    /\ UNCHANGED <<prog, pc, radius, max_iterations, shrink_fraction, patches, nonDraw, callVars>>

\* the for loop of _draw_recursive is exhausted: the call returns
DrawLoopEnd ==
    /\ prog = "draw" /\ pc = "run"
    /\ stack # <<>>
    /\ Top.k = 5
    /\ stack' = Pop
    /\ UNCHANGED <<prog, pc, radius, max_iterations, shrink_fraction, patches, nonDraw, callVars>>

\* _draw_pattern returns once the outermost call has returned
DrawReturn ==
    /\ prog = "draw" /\ pc = "run"
    /\ stack = <<>>
    /\ pc' = "done"
    /\ UNCHANGED <<prog, drawVars, nonDraw, callVars>>

\* A second call of draw_one_shape_one_color with the same arguments:
\* fig, ax = plt.subplots(...) gives it axes without patches
DrawAgain ==
    /\ prog = "draw" /\ pc = "done" /\ call = 1
    /\ previous' = patches
    /\ call' = 2
    /\ patches' = <<>>
    /\ pc' = "start"
    /\ UNCHANGED <<prog, radius, max_iterations, shrink_fraction, stack, nonDraw>>

(***************************************************************************)
(* Properties of _draw_pattern                                             *)
(***************************************************************************)
DrawDone == prog = "draw" /\ pc = "done"

RECURSIVE Pow4(_)
Pow4(k) == IF k = 0 THEN 1 ELSE 4 * Pow4(k - 1)

RECURSIVE SumPow4(_)
SumPow4(k) == IF k = 0 THEN 1 ELSE Pow4(k) + SumPow4(k - 1)

AtDepth(k) == {j \in DOMAIN patches : patches[j].iteration = k}

\* C3: for max_iterations >= 0 the circles added form a complete 4-ary tree:
\* depth k holds 4^k circles for every k in 0..max_iterations, no circle is
\* deeper than max_iterations, and 1 + 4 + ... + 4^max_iterations circles are
\* added in total.
C3_CompleteTree ==
    DrawDone /\ max_iterations >= 0 =>
        /\ \A k \in 0..max_iterations : Cardinality(AtDepth(k)) = Pow4(k)
        /\ \A j \in DOMAIN patches : patches[j].iteration \in 0..max_iterations
        /\ \E j \in DOMAIN patches : patches[j].iteration = max_iterations
        /\ Len(patches) = SumPow4(max_iterations)

C3_Witness ==
    /\ DrawDone
    /\ max_iterations = 2
    /\ Len(patches) = 21
    /\ Cardinality(AtDepth(2)) = 16

\* The circles added by the calls that circle j made: patches is in call
\* order, so they are the circles one level deeper that follow j before any
\* circle of j's depth or above.
ChildrenOf(j) ==
    {m \in DOMAIN patches :
        /\ m > j
        /\ patches[m].iteration = patches[j].iteration + 1
        /\ \A q \in (j + 1)..(m - 1) : patches[q].iteration > patches[j].iteration}

Circle(cx, cy, r, iteration) == [cx |-> cx, cy |-> cy, r |-> r, iteration |-> iteration]

\* o = r*sqrt(2)/2 + r*shrink_fraction
ChildOffset(r) == Surd(RMul(r, shrink_fraction), RDiv(r, R(2)))

\* C13: every circle (cx, cy, r) above the terminal depth has exactly four
\* children, of radius r*shrink_fraction, centred at (cx - o, cy),
\* (cx + o, cy), (cx, cy - o) and (cx, cy + o) with
\* o = r*sqrt(2)/2 + r*shrink_fraction, whatever shrink_fraction is; a circle
\* at the terminal depth has none.
C13_FourChildren ==
    DrawDone =>
        \A j \in DOMAIN patches :
            LET c == patches[j]
                o == ChildOffset(c.r)
                sr == RMul(c.r, shrink_fraction)
                d == c.iteration + 1
            IN  IF c.iteration < max_iterations
                THEN /\ Cardinality(ChildrenOf(j)) = 4
                     /\ {patches[m] : m \in ChildrenOf(j)} =
                            { Circle(SSub(c.cx, o), c.cy, sr, d),
                              Circle(SAdd(c.cx, o), c.cy, sr, d),
                              Circle(c.cx, SSub(c.cy, o), sr, d),
                              Circle(c.cx, SAdd(c.cy, o), sr, d) }
                ELSE ChildrenOf(j) = {}

\* radius 2, shrink_fraction 3/2: the first child of the root has radius 3 and
\* is centred at x = -(3 + sqrt(2)), its own first child has radius 9/2 and is
\* centred at x = -(3 + sqrt(2)) - (9/2 + 3*sqrt(2)/2).
C13_Witness ==
    /\ DrawDone
    /\ radius = R(2)
    /\ shrink_fraction = Rat(3, 2)
    /\ max_iterations = 2
    /\ patches[2] = Circle(Surd(R(-3), R(-1)), Surd(R(0), R(0)), R(3), 1)
    /\ patches[3] = Circle(Surd(Rat(-15, 2), Rat(-5, 2)), Surd(R(0), R(0)), Rat(9, 2), 2)
    /\ ChildrenOf(1) = {2, 7, 12, 17}

(***************************************************************************)
(* prompt2/animate_v3.py                                                   *)
(* A division by zero raises ZeroDivisionError: pc = "ZeroDivisionError".  *)
(***************************************************************************)
stretch_strength == Rat(7, 20)

\* Faulty variant: the ratio is computed by dividing whatever peak_height is.
HeightRatioGuard_absent(ph) == TRUE

\* ... if peak_height > 0 else 0.0
HeightRatioGuard(ph) == RLt(R(0), ph)

\* Faulty variant: the samples run up to t = 1.
bounce_t_inclusive(k) == Rat(k, air_steps)

\* t = i / (air_steps + 1)
bounce_t(k) == Rat(k, air_steps + 1)

\* y = peak_height * 4.0 * t * (1.0 - t)
bounce_y(t) == RMul(RMul(RMul(peak_height, R(4)), t), RSub(R(1), t))

\* height_ratio = y / peak_height if peak_height > 0 else 0.0
height_ratio(y) == IF HeightRatioGuard(peak_height) THEN RDiv(y, peak_height) ELSE R(0)

\* Faulty variant: the stretch grows with the height.
vertical_scale_at_peak(hr) == RAdd(R(1), RMul(stretch_strength, hr))

\* vertical_scale = 1.0 + stretch_strength * (1.0 - height_ratio)
vertical_scale(hr) == RAdd(R(1), RMul(stretch_strength, RSub(R(1), hr)))

\* The divisions of one airborne iteration whose divisor is zero.
AirDividesByZero(t) ==
    \/ HeightRatioGuard(peak_height) /\ peak_height = R(0)
    \/ vertical_scale(height_ratio(bounce_y(t))) = R(0)

\* The airborne frame appended for t.
AirFrame(t) ==
    LET y == bounce_y(t)
        vs == vertical_scale(height_ratio(y))
    IN  [x |-> RAdd(x_start, RMul(RSub(x_end, x_start), t)),
         y |-> y,
         sx |-> RDiv(R(1), vs),
         sy |-> vs]

\* Faulty variant: the impact is a single snap to the most squashed pose.
squash_poses_snap ==
    << [sx |-> Rat(8, 5), sy |-> Rat(1, 2)] >>

squash_poses ==
    << [sx |-> Rat(6, 5), sy |-> Rat(4, 5)],
       [sx |-> Rat(8, 5), sy |-> Rat(1, 2)],
       [sx |-> Rat(13, 10), sy |-> Rat(7, 10)] >>

\* The frames appended by: for pose in squash_poses
SquashFrames ==
    [k \in 1..Len(squash_poses) |->
        [x |-> x_end, y |-> R(0), sx |-> squash_poses[k].sx, sy |-> squash_poses[k].sy]]

BounceInit ==
    /\ prog = "bounce"
    /\ pc = "air"
    /\ \E xs \in {<<R(0), R(6)>>, <<R(6), R(12)>>} : x_start = xs[1] /\ x_end = xs[2]
    /\ peak_height \in {R(-3), R(0), R(3), R(9)}
    /\ air_steps \in 0..MaxAir
    /\ include_squash \in BOOLEAN
    /\ bounce_frames = <<>>
    /\ bounce_i = 1
    /\ TweenIdle /\ DrawIdle /\ AllIdle /\ SampleIdle /\ SwarmIdle /\ SunIdle /\ AnimIdle

\* one iteration of: for i in range(1, air_steps + 1)
BounceAir ==
    /\ prog \in {"bounce", "all"} /\ pc = "air"
    /\ bounce_i <= air_steps
    /\ LET t == bounce_t(bounce_i)
       IN  IF AirDividesByZero(t)
           THEN /\ pc' = "ZeroDivisionError"
                /\ UNCHANGED <<bounce_frames, bounce_i>>
           ELSE /\ bounce_frames' = Append(bounce_frames, AirFrame(t))
                /\ bounce_i' = bounce_i + 1
                /\ pc' = pc
    /\ UNCHANGED <<prog, x_start, x_end, peak_height, air_steps, include_squash,
                   nonBounce, callVars>>

\* if include_squash: append the squash sequence at (x_end, 0); return frames
BounceSquash ==
    /\ prog \in {"bounce", "all"} /\ pc = "air"
    /\ bounce_i > air_steps
    /\ include_squash
    /\ bounce_frames' = bounce_frames \o SquashFrames
    /\ pc' = IF prog = "all" THEN "extend" ELSE "done"
    /\ UNCHANGED <<prog, x_start, x_end, peak_height, air_steps, include_squash,
                   bounce_i, nonBounce, callVars>>

\* include_squash is false: return frames
BounceReturn ==
    /\ prog \in {"bounce", "all"} /\ pc = "air"
    /\ bounce_i > air_steps
    /\ ~include_squash
    /\ pc' = IF prog = "all" THEN "extend" ELSE "done"
    /\ UNCHANGED <<prog, bounceVars, nonBounce, callVars>>

\* A second call of _generate_bounce_frames with the same arguments: frames = []
BounceAgain ==
    /\ prog = "bounce" /\ pc = "done" /\ call = 1
    /\ previous' = bounce_frames
    /\ call' = 2
    /\ bounce_frames' = <<>>
    /\ bounce_i' = 1
    /\ pc' = "air"
    /\ UNCHANGED <<prog, x_start, x_end, peak_height, air_steps, include_squash, nonBounce>>

(***************************************************************************)
(* prompt2/animate_v3.py: _generate_all_frames                             *)
(* Its calls of _generate_bounce_frames are the actions above; a call      *)
(* returns to pc = "extend".                                               *)
(***************************************************************************)
\* (x_start, x_end, peak_height) of the three bounces
bounces ==
    << <<R(0), R(6), R(9)>>,
       <<R(6), R(12), R(6)>>,
       <<R(12), R(18), R(3)>> >>

\* air_steps=14
all_air_steps == 14

AllInit ==
    /\ prog = "all"
    /\ pc = "call"
    /\ all_frames = <<>>
    /\ bounce_k = 1
    /\ TweenIdle /\ DrawIdle /\ BounceIdle /\ SampleIdle /\ SwarmIdle /\ SunIdle /\ AnimIdle

\* frames = _generate_bounce_frames(x_start=x0, x_end=x1, peak_height=h,
\*                                  air_steps=14, include_squash=True)
AllCall ==
    /\ prog = "all" /\ pc = "call"
    /\ bounce_k <= Len(bounces)
    /\ x_start' = bounces[bounce_k][1]
    /\ x_end' = bounces[bounce_k][2]
    /\ peak_height' = bounces[bounce_k][3]
    /\ air_steps' = all_air_steps
    /\ include_squash' = TRUE
    /\ bounce_frames' = <<>>
    /\ bounce_i' = 1
    /\ pc' = "air"
    /\ UNCHANGED <<prog, allVars, nonAll, callVars>>

\* Faulty variant: the frames of a bounce are put before those gathered so far.
AllExtend_prepend ==
    /\ prog = "all" /\ pc = "extend"
    /\ all_frames' = bounce_frames \o all_frames
    /\ bounce_k' = bounce_k + 1
    /\ pc' = "call"
    /\ UNCHANGED <<prog, bounceVars, nonAll, callVars>>

\* all_frames.extend(frames), then the next bounce
AllExtend ==
    /\ prog = "all" /\ pc = "extend"
    /\ all_frames' = all_frames \o bounce_frames
    /\ bounce_k' = bounce_k + 1
    /\ pc' = "call"
    /\ UNCHANGED <<prog, bounceVars, nonAll, callVars>>

\* return all_frames
AllReturn ==
    /\ prog = "all" /\ pc = "call"
    /\ bounce_k > Len(bounces)
    /\ pc' = "done"
    /\ UNCHANGED <<prog, bounceVars, allVars, nonAll, callVars>>

\* A second call of _generate_all_frames: all_frames = []
AllAgain ==
    /\ prog = "all" /\ pc = "done" /\ call = 1
    /\ previous' = all_frames
    /\ call' = 2
    /\ all_frames' = <<>>
    /\ bounce_k' = 1
    /\ pc' = "call"
    /\ UNCHANGED <<prog, bounceVars, nonAll>>

(***************************************************************************)
(* Properties of _generate_bounce_frames                                   *)
(***************************************************************************)
\* The airborne frames appended so far.
Airborne == 1..(IF Len(bounce_frames) < air_steps THEN Len(bounce_frames) ELSE air_steps)

\* C6: with peak_height = 0 no division error is raised and every airborne
\* frame has y = 0 and sy = 1 + 0.35 = 27/20 (height ratio 0), for every
\* air_steps >= 0 and both values of include_squash.
C6_ZeroPeakSafe ==
    prog = "bounce" /\ peak_height = R(0) =>
        /\ pc # "ZeroDivisionError"
        /\ \A k \in Airborne :
              /\ bounce_frames[k].y = R(0)
              /\ bounce_frames[k].sy = <<27, 20>>

C6_Witness ==
    /\ prog = "bounce" /\ pc = "done"
    /\ peak_height = R(0)
    /\ air_steps = 3
    /\ include_squash
    /\ Len(bounce_frames) = 6
    /\ bounce_frames[2].sy = <<27, 20>>
    /\ bounce_frames[2].x = R(3)

BounceDone == prog = "bounce" /\ pc = "done"

\* The frames appended after the airborne ones.
Impact == SubSeq(bounce_frames, air_steps + 1, Len(bounce_frames))

\* C15: exactly air_steps airborne frames are produced, the i-th at
\* t = i/(air_steps+1), which is strictly between 0 and 1; it has
\* x = x_start + (x_end - x_start)*t and y = peak_height*4*t*(1-t).
C15_AirborneSamples ==
    BounceDone =>
        /\ Cardinality({k \in DOMAIN bounce_frames : bounce_frames[k].x # x_end}) = air_steps
        /\ Len(bounce_frames) >= air_steps
        /\ \A k \in 1..air_steps :
              LET t == <<k, air_steps + 1>>
                  u == <<air_steps + 1 - k, air_steps + 1>>
              IN  /\ bounce_frames[k].x = RAdd(x_start, RMul(RSub(x_end, x_start), t))
                  /\ bounce_frames[k].y = RMul(RMul(peak_height, R(4)), RMul(t, u))
                  /\ bounce_frames[k].x # x_start
                  /\ bounce_frames[k].x # x_end

\* air_steps = 3 from x = 6 to 12 with peak 9: t = 1/4, 1/2, 3/4.
C15_Witness ==
    /\ BounceDone
    /\ x_start = R(6) /\ x_end = R(12)
    /\ peak_height = R(9)
    /\ air_steps = 3
    /\ bounce_frames[1].x = Rat(15, 2) /\ bounce_frames[1].y = Rat(27, 4)
    /\ bounce_frames[2].x = R(9) /\ bounce_frames[2].y = R(9)
    /\ bounce_frames[3].x = Rat(21, 2) /\ bounce_frames[3].y = Rat(27, 4)

C17_SquashSequence ==
    BounceDone =>
        IF include_squash
        THEN /\ Len(Impact) >= 2
             /\ \A k \in DOMAIN Impact : Impact[k].x = x_end /\ Impact[k].y = R(0)
             /\ \E m \in 2..(Len(Impact) - 1) :
                   /\ \A k \in 1..(m - 1) : RLt(Impact[k + 1].sy, Impact[k].sy)
                   /\ \A k \in m..(Len(Impact) - 1) : RLt(Impact[k].sy, Impact[k + 1].sy)
             /\ LET last == Impact[Len(Impact)]
                IN  RLt(last.sy, R(1)) /\ RLt(R(1), last.sx)
             /\ [k \in DOMAIN Impact |-> <<Impact[k].sx, Impact[k].sy>>] =
                    << <<Rat(6, 5), Rat(4, 5)>>, <<Rat(8, 5), Rat(1, 2)>>,
                       <<Rat(13, 10), Rat(7, 10)>> >>
             /\ \A k \in 1..air_steps : bounce_frames[k].x # x_end
        ELSE /\ Len(bounce_frames) = air_steps
             /\ \A k \in DOMAIN bounce_frames :
                   ~(bounce_frames[k].x = x_end /\ bounce_frames[k].y = R(0))

C17_Witness ==
    /\ BounceDone
    /\ include_squash
    /\ air_steps = 2
    /\ x_end = R(12)
    /\ Len(bounce_frames) = 5
    /\ bounce_frames[3] = [x |-> R(12), y |-> R(0), sx |-> Rat(6, 5), sy |-> Rat(4, 5)]
    /\ bounce_frames[4] = [x |-> R(12), y |-> R(0), sx |-> Rat(8, 5), sy |-> Rat(1, 2)]
    /\ bounce_frames[5] = [x |-> R(12), y |-> R(0), sx |-> Rat(13, 10), sy |-> Rat(7, 10)]

(***************************************************************************)
(* Properties of _generate_all_frames                                      *)
(***************************************************************************)
AllDone == prog = "all" /\ pc = "done"

\* Frames of one bounce: 14 airborne ones and 3 at the impact.
PerBounce == all_air_steps + 3

\* C18: the returned list is the frames of the three bounces one after
\* another in list order, each bounce's frames depending on its own
\* (x_start, x_end, peak_height) alone: each x_start is the previous x_end,
\* the peak heights strictly decrease, x never decreases along the list and
\* the list has 3 * (14 + 3) = 51 frames.
C18_BouncesChained ==
    /\ \A b \in 1..(Len(bounces) - 1) :
          /\ bounces[b + 1][1] = bounces[b][2]
          /\ RLt(bounces[b + 1][3], bounces[b][3])
    /\ AllDone =>
          /\ Len(all_frames) = 51
          /\ Len(all_frames) = Len(bounces) * PerBounce
          /\ \A k \in 1..(Len(all_frames) - 1) : RLe(all_frames[k].x, all_frames[k + 1].x)
          /\ \A b \in DOMAIN bounces :
                LET x0 == bounces[b][1]
                    x1 == bounces[b][2]
                    h == bounces[b][3]
                    base == (b - 1) * PerBounce
                IN  /\ \A j \in 1..14 :
                          LET t == <<j, 15>>
                              u == <<15 - j, 15>>
                              f == all_frames[base + j]
                          IN  /\ f.x = RAdd(x0, RMul(RSub(x1, x0), t))
                              /\ f.y = RMul(RMul(h, R(4)), RMul(t, u))
                              /\ f.sy = RAdd(R(1), RMul(<<7, 20>>,
                                                       RSub(R(1), RMul(R(4), RMul(t, u)))))
                              /\ RMul(f.sx, f.sy) = R(1)
                    /\ \A j \in 15..17 :
                          all_frames[base + j].x = x1 /\ all_frames[base + j].y = R(0)

\* The last frame of the first bounce, the first frame of the second one and
\* the last frame of the list.
C18_Witness ==
    /\ AllDone
    /\ Len(all_frames) = 51
    /\ all_frames[17] = [x |-> R(6), y |-> R(0), sx |-> Rat(13, 10), sy |-> Rat(7, 10)]
    /\ all_frames[18].x = Rat(32, 5)
    /\ all_frames[18].y = Rat(112, 75)
    /\ all_frames[51] = [x |-> R(18), y |-> R(0), sx |-> Rat(13, 10), sy |-> Rat(7, 10)]

(***************************************************************************)
(* prompt5/genuary_swarm.py: sample_points_on_segments                     *)
(* A point is <<x, y>>; an array of points is a sequence of points.        *)
(***************************************************************************)
\* Faulty variant: endpoint=False, the last sample stops short of b.
linspace_open(a, b, n) ==
    [k \in 1..n |-> RAdd(a, RMul(RSub(b, a), Rat(k - 1, n)))]

\* np.linspace(a, b, n, endpoint=True), for n >= 0
linspace(a, b, n) ==
    [k \in 1..n |-> IF n = 1 THEN a
                    ELSE RAdd(a, RMul(RSub(b, a), Rat(k - 1, n - 1)))]

\* Square root of a natural number that is a perfect square.
ISqrt(n) == CHOOSE r \in 0..n : r * r = n

\* np.hypot(dx, dy), for the segments of SegmentChoices (rational lengths)
hypot(dx, dy) ==
    LET q == RAdd(RMul(dx, dx), RMul(dy, dy))
    IN  Rat(ISqrt(q[1]), ISqrt(q[2]))

Pt(x, y) == <<R(x), R(y)>>

\* Segments the inputs are drawn from: a zero-length one, the left vertical
\* of the "G" of make_letter_segments, and a slanted one of length 5.
SegmentChoices ==
    { <<Pt(8, 5), Pt(8, 5)>>,
      <<Pt(0, 0), Pt(0, 5)>>,
      <<Pt(0, 0), Pt(3, 4)>> }

\* base_pts = np.stack([x1 + (x2 - x1) * t, y1 + (y2 - y1) * t], axis=1)
base_pts(sg) ==
    LET t == linspace(R(0), R(1), points_per_segment)
    IN  [k \in 1..points_per_segment |->
            << RAdd(sg[1][1], RMul(RSub(sg[2][1], sg[1][1]), t[k])),
               RAdd(sg[1][2], RMul(RSub(sg[2][2], sg[1][2]), t[k])) >>]

seg_length(sg) == hypot(RSub(sg[2][1], sg[1][1]), RSub(sg[2][2], sg[1][2]))

\* Faulty variant: the rails are built whatever the length of the segment is.
UseRails_any_length(sg) == RLt(R(0), thickness) /\ rails > 1

\* if thickness > 0.0 and rails > 1 and length > 0
UseRails(sg) == RLt(R(0), thickness) /\ rails > 1 /\ RLt(R(0), seg_length(sg))

\* base_pts + offset_vec, for every off of np.linspace(-thickness, thickness, rails)
RailArrays(sg) ==
    LET dx == RSub(sg[2][1], sg[1][1])
        dy == RSub(sg[2][2], sg[1][2])
        nx == RDiv(RSub(R(0), dy), seg_length(sg))
        ny == RDiv(dx, seg_length(sg))
        offsets == linspace(RSub(R(0), thickness), thickness, rails)
        b == base_pts(sg)
    IN  [j \in 1..rails |->
            [k \in 1..points_per_segment |->
                << RAdd(b[k][1], RMul(nx, offsets[j])),
                   RAdd(b[k][2], RMul(ny, offsets[j])) >>]]

\* np.vstack: the arrays one after another
RECURSIVE vstack(_)
vstack(arrays) ==
    IF arrays = <<>> THEN <<>> ELSE Head(arrays) \o vstack(Tail(arrays))

SampleInit ==
    /\ prog = "sample"
    /\ pc = "loop"
    /\ segments \in SeqsUpTo(SegmentChoices, MaxSegs)
    /\ points_per_segment \in (0..MaxPts) \cup {10}
    /\ thickness \in {R(0), Rat(9, 50)}
    /\ rails \in 1..MaxRails
    /\ all_points = <<>>
    /\ seg_i = 1
    /\ stacked = <<>>
    /\ TweenIdle /\ DrawIdle /\ BounceIdle /\ AllIdle /\ SwarmIdle /\ SunIdle /\ AnimIdle

\* loop body, if branch: one array per rail is appended; dividing by a zero
\* length gives nan coordinates (pc = "DivideByZero")
SampleRails ==
    /\ prog = "sample" /\ pc = "loop"
    /\ seg_i <= Len(segments)
    /\ UseRails(segments[seg_i])
    /\ IF seg_length(segments[seg_i]) = R(0)
       THEN /\ pc' = "DivideByZero"
            /\ UNCHANGED <<all_points, seg_i>>
       ELSE /\ all_points' = all_points \o RailArrays(segments[seg_i])
            /\ seg_i' = seg_i + 1
            /\ pc' = pc
    /\ UNCHANGED <<prog, segments, points_per_segment, thickness, rails, stacked,
                   nonSample, callVars>>

\* loop body, else branch: all_points.append(base_pts)
SampleCentreline ==
    /\ prog = "sample" /\ pc = "loop"
    /\ seg_i <= Len(segments)
    /\ ~UseRails(segments[seg_i])
    /\ all_points' = Append(all_points, base_pts(segments[seg_i]))
    /\ seg_i' = seg_i + 1
    /\ UNCHANGED <<prog, pc, segments, points_per_segment, thickness, rails, stacked,
                   nonSample, callVars>>

\* return np.vstack(all_points); np.vstack of an empty list raises ValueError
SampleReturn ==
    /\ prog = "sample" /\ pc = "loop"
    /\ seg_i > Len(segments)
    /\ IF all_points = <<>>
       THEN pc' = "ValueError" /\ UNCHANGED stacked
       ELSE pc' = "done" /\ stacked' = vstack(all_points)
    /\ UNCHANGED <<prog, segments, points_per_segment, thickness, rails, all_points,
                   seg_i, nonSample, callVars>>

\* A second call of sample_points_on_segments with the same arguments:
\* all_points = []
SampleAgain ==
    /\ prog = "sample" /\ pc = "done" /\ call = 1
    /\ previous' = stacked
    /\ call' = 2
    /\ all_points' = <<>>
    /\ seg_i' = 1
    /\ stacked' = <<>>
    /\ pc' = "loop"
    /\ UNCHANGED <<prog, segments, points_per_segment, thickness, rails, nonSample>>

(***************************************************************************)
(* Properties of sample_points_on_segments                                 *)
(***************************************************************************)
ZeroLength(sg) == sg[1] = sg[2]

\* C7: a list of zero-length segments raises no error, whatever thickness and
\* rails are, and returns exactly points_per_segment points per segment, all
\* equal to the segment's endpoint (10 identical points for one segment and
\* points_per_segment = 10).
C7_ZeroLengthSegment ==
    /\ prog = "sample"
    /\ segments # <<>>
    /\ \A j \in DOMAIN segments : ZeroLength(segments[j])
    =>
    /\ pc \in {"loop", "done"}
    /\ pc = "done" =>
          /\ Len(stacked) = points_per_segment * Len(segments)
          /\ \A j \in DOMAIN segments : \A m \in 1..points_per_segment :
                stacked[(j - 1) * points_per_segment + m] = segments[j][1]

C7_Witness ==
    /\ prog = "sample" /\ pc = "done"
    /\ segments = << <<Pt(8, 5), Pt(8, 5)>> >>
    /\ points_per_segment = 10
    /\ thickness = Rat(9, 50)
    /\ rails = 3
    /\ Len(stacked) = 10
    /\ \A m \in 1..10 : stacked[m] = Pt(8, 5)

SampleDone == prog = "sample" /\ pc = "done"

\* thickness > 0 and rails > 1, for a segment that is not degenerate
Thickened(sg) == RLt(R(0), thickness) /\ rails > 1 /\ ~ZeroLength(sg)

\* Number of copies of the sampled line emitted for a segment.
Copies(sg) == IF Thickened(sg) THEN rails ELSE 1

\* Number of points emitted for the segments before segment j.
RECURSIVE PointsBefore(_)
PointsBefore(j) ==
    IF j = 1 THEN 0
    ELSE PointsBefore(j - 1) + points_per_segment * Copies(segments[j - 1])

\* The offset of copy r of a thickened segment along its unit normal:
\* evenly spaced from -thickness to +thickness.
RailOffset(sg, r) ==
    LET dx == RSub(sg[2][1], sg[1][1])
        dy == RSub(sg[2][2], sg[1][2])
        len == seg_length(sg)
        off == RAdd(RSub(R(0), thickness),
                    RMul(RMul(R(2), thickness), Rat(r - 1, rails - 1)))
    IN  IF Thickened(sg)
        THEN <<RMul(RDiv(RSub(R(0), dy), len), off), RMul(RDiv(dx, len), off)>>
        ELSE <<R(0), R(0)>>

\* Point m of the points_per_segment evenly spaced points from end to end.
EvenPoint(sg, m) ==
    LET t == IF points_per_segment = 1 THEN R(0) ELSE Rat(m - 1, points_per_segment - 1)
    IN  << RAdd(sg[1][1], RMul(RSub(sg[2][1], sg[1][1]), t)),
           RAdd(sg[1][2], RMul(RSub(sg[2][2], sg[1][2]), t)) >>

PtAdd(p, q) == <<RAdd(p[1], q[1]), RAdd(p[2], q[2])>>

\* The returned points: per segment, in order, Copies(segment) copies of the
\* evenly spaced points, copy r shifted by RailOffset(segment, r); in all the
\* sum of the per-segment counts.
SampledLayout ==
    /\ Len(stacked) = PointsBefore(Len(segments) + 1)
    /\ \A j \in DOMAIN segments : \A r \in 1..Copies(segments[j]) :
          \A m \in 1..points_per_segment :
              stacked[PointsBefore(j) + (r - 1) * points_per_segment + m] =
                  PtAdd(EvenPoint(segments[j], m), RailOffset(segments[j], r))

\* The first and the last point of every copy of every non-degenerate
\* segment are the two endpoints of the segment (shifted with the copy).
EndpointsSampled ==
    \A j \in DOMAIN segments : \A r \in 1..Copies(segments[j]) :
        ~ZeroLength(segments[j]) =>
            LET first == PointsBefore(j) + (r - 1) * points_per_segment + 1
                last == PointsBefore(j) + r * points_per_segment
            IN  /\ stacked[first] = PtAdd(segments[j][1], RailOffset(segments[j], r))
                /\ stacked[last] = PtAdd(segments[j][2], RailOffset(segments[j], r))

\* C19 as stated: for every non-degenerate segment the points_per_segment
\* evenly spaced points begin and end at the segment's two endpoints; rails
\* copies offset along the unit normal from -thickness to +thickness when
\* thickness > 0 and rails > 1, the centreline alone otherwise; the total is
\* the sum of the per-segment counts.
C19_BothEndpoints ==
    SampleDone /\ points_per_segment >= 1 => SampledLayout /\ EndpointsSampled

\* C19 amended: the layout holds for every points_per_segment >= 0, and the
\* first and last points are the two endpoints when points_per_segment >= 2;
\* with points_per_segment = 1 the only point of a copy is the first
\* endpoint, the second endpoint is not emitted.
C19_EndpointsFromTwoPoints ==
    SampleDone =>
        /\ SampledLayout
        /\ points_per_segment >= 2 => EndpointsSampled
        /\ points_per_segment = 1 =>
               \A j \in DOMAIN segments : \A r \in 1..Copies(segments[j]) :
                   stacked[PointsBefore(j) + r] =
                       PtAdd(segments[j][1], RailOffset(segments[j], r))

\* The slanted segment with three points on three rails: the rails are
\* shifted by -9/50, 0 and 9/50 along the unit normal (-4/5, 3/5).
C19_Witness ==
    /\ SampleDone
    /\ segments = << <<Pt(0, 0), Pt(3, 4)>> >>
    /\ points_per_segment = 3
    /\ thickness = Rat(9, 50)
    /\ rails = 3
    /\ Len(stacked) = 9
    /\ stacked[1] = <<Rat(18, 125), Rat(-27, 250)>>
    /\ stacked[4] = Pt(0, 0)
    /\ stacked[5] = <<Rat(3, 2), R(2)>>
    /\ stacked[6] = Pt(3, 4)
    /\ stacked[9] = <<Rat(357, 125), Rat(1027, 250)>>

(***************************************************************************)
(* prompt5/genuary_swarm.py: create_swarm_gif, the precomputed positions   *)
(* The draws of rng are nondeterministic choices among sample arrays.  The  *)
(* generator of a seed yields one fixed stream of outcomes: `stream` holds  *)
(* the part of it drawn so far and rng_pos counts the draws of the current  *)
(* rng object, so a position drawn before yields the same outcome again.    *)
(***************************************************************************)
\* Canvas targets of the particles: points of the padded box
\* [pad_x, 1 - pad_x] x [pad_y, 1 - pad_y], pad_x = 0.08, pad_y = 0.15.
TargetPoints ==
    << <<Rat(2, 25), Rat(3, 20)>>, <<Rat(23, 25), Rat(17, 20)>>, <<Rat(1, 2), Rat(1, 2)>> >>

\* Outcomes of rng.random for one coordinate: values of [0, 1).
UniformSamples == {R(0), Rat(99, 100)}

\* Outcomes of a standard normal draw for one coordinate (scaled by `scale`).
NormalSamples == {R(-10), R(10)}

\* Arrays of shape (n, 2) whose rows alternate between <<a, b>> and <<b, a>>,
\* for two different outcomes a and b.
SampleArrays(n, S) ==
    {[k \in 1..n |-> IF k % 2 = 1 THEN <<c[1], c[2]>> ELSE <<c[2], c[1]>>] :
        c \in {d \in S \X S : d[1] # d[2]}}

\* rng.normal(scale=scale, size=(n, 2))
NormalArrays(n, scale) ==
    {[k \in 1..n |-> <<RMul(scale, z[k][1]), RMul(scale, z[k][2])>>] :
        z \in SampleArrays(n, NormalSamples)}

\* The outcomes the draw at position k of the stream s can have.
Draws(s, k, S) == IF k <= Len(s) THEN {s[k]} ELSE S

\* The stream s once the draw at position k has had the outcome v.
Drawn(s, k, v) == IF k <= Len(s) THEN s ELSE Append(s, v)

\* t = frame_idx / (n_frames - 1) if n_frames > 1 else 1.0
swarm_t(f) == IF n_frames > 1 THEN Rat(f, n_frames - 1) ELSE R(1)

\* Faulty variant: the noise does not fade.
noise_scale_constant(alpha) == jitter

\* noise_scale = jitter * (1.0 - alpha) ** 3
noise_scale(alpha) ==
    LET u == RSub(R(1), alpha) IN RMul(jitter, RMul(u, RMul(u, u)))

\* Faulty variant: the positions are not clipped.
clip_absent(v) == v

\* np.clip(v, 0.0, 1.0) for one coordinate
clip(v) == IF RLt(v, R(0)) THEN R(0) ELSE IF RLt(R(1), v) THEN R(1) ELSE v

\* pos = np.clip((1.0 - alpha) * starts + alpha * jittered_targets + noise, 0.0, 1.0)
swarm_pos(alpha, noise) ==
    [k \in DOMAIN starts |->
        [c \in 1..2 |->
            clip(RAdd(RAdd(RMul(RSub(R(1), alpha), starts[k][c]),
                           RMul(alpha, jittered_targets[k][c])),
                      noise[k][c]))]]

SwarmInit ==
    /\ prog = "swarm"
    /\ pc = "setup"
    /\ n_frames \in 0..MaxFrames
    /\ jitter \in {R(0), Rat(1, 125)}
    /\ \E n \in 1..MaxParticles :
          targets = [k \in 1..n |-> TargetPoints[((k - 1) % 3) + 1]]
    /\ starts = <<>>
    /\ jittered_targets = <<>>
    /\ all_positions = <<>>
    /\ frame_idx = 0
    /\ stream = <<>>
    /\ rng_pos = 0
    /\ TweenIdle /\ DrawIdle /\ BounceIdle /\ AllIdle /\ SampleIdle /\ SunIdle /\ AnimIdle

\* starts = rng.random((n_particles, 2))
\* jittered_targets = targets + rng.normal(scale=0.01, size=targets.shape)
SwarmSetup ==
    /\ prog = "swarm" /\ pc = "setup"
    /\ \E u \in Draws(stream, rng_pos + 1, SampleArrays(Len(targets), UniformSamples)) :
          LET s1 == Drawn(stream, rng_pos + 1, u)
          IN  \E g \in Draws(s1, rng_pos + 2, NormalArrays(Len(targets), Rat(1, 100))) :
                 /\ starts' = u
                 /\ jittered_targets' =
                        [k \in DOMAIN targets |->
                            <<RAdd(targets[k][1], g[k][1]), RAdd(targets[k][2], g[k][2])>>]
                 /\ stream' = Drawn(s1, rng_pos + 2, g)
    /\ rng_pos' = rng_pos + 2
    /\ pc' = "frames"
    /\ UNCHANGED <<prog, n_frames, jitter, targets, all_positions, frame_idx,
                   nonSwarm, callVars>>

\* one iteration of: for frame_idx in range(n_frames)
SwarmFrame ==
    /\ prog = "swarm" /\ pc = "frames"
    /\ frame_idx < n_frames
    /\ LET alpha == _ease_in_out(swarm_t(frame_idx))
       IN  \E noise \in Draws(stream, rng_pos + 1,
                              NormalArrays(Len(starts), noise_scale(alpha))) :
              /\ all_positions' = Append(all_positions, swarm_pos(alpha, noise))
              /\ stream' = Drawn(stream, rng_pos + 1, noise)
    /\ rng_pos' = rng_pos + 1
    /\ frame_idx' = frame_idx + 1
    /\ UNCHANGED <<prog, pc, n_frames, jitter, targets, starts, jittered_targets,
                   nonSwarm, callVars>>

\* all_positions = np.stack(all_positions, axis=0); np.stack of an empty
\* list raises ValueError
SwarmStack ==
    /\ prog = "swarm" /\ pc = "frames"
    /\ frame_idx >= n_frames
    /\ pc' = IF all_positions = <<>> THEN "ValueError" ELSE "done"
    /\ UNCHANGED <<prog, swarmVars, nonSwarm, callVars>>

\* Faulty variant: the second call goes on drawing from the rng of the first.
SwarmAgain_shared_rng ==
    /\ prog = "swarm" /\ pc = "done" /\ call = 1
    /\ previous' = all_positions
    /\ call' = 2
    /\ starts' = <<>>
    /\ jittered_targets' = <<>>
    /\ all_positions' = <<>>
    /\ frame_idx' = 0
    /\ pc' = "setup"
    /\ UNCHANGED <<prog, n_frames, jitter, targets, stream, rng_pos, nonSwarm>>

\* A second call with the same arguments and the same seed:
\* rng = np.random.default_rng(seed) starts the stream of the seed again
SwarmAgain ==
    /\ prog = "swarm" /\ pc = "done" /\ call = 1
    /\ previous' = all_positions
    /\ call' = 2
    /\ rng_pos' = 0
    /\ starts' = <<>>
    /\ jittered_targets' = <<>>
    /\ all_positions' = <<>>
    /\ frame_idx' = 0
    /\ pc' = "setup"
    /\ UNCHANGED <<prog, n_frames, jitter, targets, stream, nonSwarm>>

(***************************************************************************)
(* Properties of create_swarm_gif                                          *)
(***************************************************************************)
InUnit(v) == RLe(R(0), v) /\ RLe(v, R(1))

\* C9: for n_frames >= 1 the precomputed sequence holds exactly n_frames
\* frames, every frame holds one position per target particle, and both
\* coordinates of every particle of every frame lie in [0, 1], whatever the
\* random draws are.
C9_FramesInCanvas ==
    prog = "swarm" /\ n_frames >= 1 =>
        /\ pc # "ValueError"
        /\ pc = "done" => Len(all_positions) = n_frames
        /\ \A f \in DOMAIN all_positions :
              /\ DOMAIN all_positions[f] = DOMAIN targets
              /\ \A k \in DOMAIN targets : \A c \in 1..2 :
                    InUnit(all_positions[f][k][c])

\* A run in which the clipping acts at both ends and leaves a coordinate inside.
C9_Witness ==
    /\ prog = "swarm" /\ pc = "done"
    /\ n_frames = 3
    /\ Len(targets) = 2
    /\ Len(all_positions) = 3
    /\ all_positions[1][1][1] = R(0)
    /\ all_positions[1][2][1] = R(1)
    /\ starts[1][1] = R(0)
    /\ starts[2][1] = Rat(99, 100)
    /\ \E k \in 1..2 : \E c \in 1..2 :
          RLt(R(0), all_positions[2][k][c]) /\ RLt(all_positions[2][k][c], R(1))

\* Normalized time of the f-th frame (f = 1 is frame_idx 0).
FrameTime(f) == IF n_frames > 1 THEN Rat(f - 1, n_frames - 1) ELSE R(1)

\* jitter * (1 - ease(t))^3 for the f-th frame
FadedScale(f) ==
    LET u == RSub(R(1), Smoothstep(FrameTime(f)))
    IN  RMul(jitter, RMul(u, RMul(u, u)))

Clamp(v) == IF RLt(v, R(0)) THEN R(0) ELSE IF RLt(R(1), v) THEN R(1) ELSE v

\* C20: start and jittered_target are drawn once, before the frame loop; the
\* position of a particle in the frame of normalized time t is
\* clamp((1 - ease(t))*start + ease(t)*jittered_target + noise) with noise
\* drawn at scale jitter*(1 - ease(t))^3; that scale never increases from a
\* frame to the next and is 0 in the last frame (t = 1, the only frame when
\* n_frames = 1), where every particle is at its jittered target clamped to
\* [0,1]^2.
C20_EasedSwarm ==
    prog = "swarm" /\ pc \in {"frames", "done"} =>
        /\ starts = stream[1]
        /\ jittered_targets =
              [k \in DOMAIN targets |->
                  <<RAdd(targets[k][1], stream[2][k][1]), RAdd(targets[k][2], stream[2][k][2])>>]
        /\ \A f \in DOMAIN all_positions : \A k \in DOMAIN targets : \A c \in 1..2 :
              LET e == Smoothstep(FrameTime(f))
                  noise == stream[2 + f][k][c]
              IN  /\ noise \in {RMul(FadedScale(f), z) : z \in NormalSamples}
                  /\ all_positions[f][k][c] =
                        Clamp(RAdd(RAdd(RMul(RSub(R(1), e), starts[k][c]),
                                        RMul(e, jittered_targets[k][c])),
                                   noise))
        /\ \A f \in 1..(n_frames - 1) : RLe(FadedScale(f + 1), FadedScale(f))
        /\ n_frames >= 1 => FadedScale(n_frames) = R(0)
        /\ pc = "done" =>
              \A k \in DOMAIN targets : \A c \in 1..2 :
                  all_positions[n_frames][k][c] = Clamp(jittered_targets[k][c])

\* Three frames with jitter 0.008: the noise of the middle frame is drawn at
\* scale 0.001, and in the last frame the first particle is at its jittered
\* target (0.08 - 0.1, 0.15 + 0.1) clamped to (0, 0.25).
C20_Witness ==
    /\ prog = "swarm" /\ pc = "done"
    /\ n_frames = 3
    /\ jitter = Rat(1, 125)
    /\ FadedScale(1) = Rat(1, 125)
    /\ FadedScale(2) = Rat(1, 1000)
    /\ stream[4][1][1] = Rat(1, 100)
    /\ jittered_targets[1] = <<Rat(-1, 50), Rat(1, 4)>>
    /\ all_positions[3][1] = <<R(0), Rat(1, 4)>>
    /\ all_positions[2][1][2] # all_positions[3][1][2]

(***************************************************************************)
(* prompt7/boolean_algebra.py: create_sun_frame                            *)
(* A pixel is <<y, x>>; a colour is a triple of 0..255; a sun is            *)
(* <<cx, cy, max_radius>>.  Distances are kept as their squares; an opacity *)
(* is p + q*sqrt(d2), kept as [p, q, d2].                                   *)
(***************************************************************************)
\* "#A33800" and "#FFFFFF" as their six hexadecimal digits
center_color == <<10, 3, 3, 8, 0, 0>>
background_color == <<15, 15, 15, 15, 15, 15>>

\* tuple(int(hex_color[i:i+2], 16) for i in (0, 2, 4))
hex_to_rgb(h) == <<16 * h[1] + h[2], 16 * h[3] + h[4], 16 * h[5] + h[6]>>

center_rgb == hex_to_rgb(center_color)
bg_rgb == hex_to_rgb(background_color)

Pixels == (0..(height - 1)) \X (0..(width - 1))

\* The pixel visited at position n of: for y in range(height): for x in range(width)
PixelAt(n) == <<n \div width, n % width>>

Min(a, b) == IF a < b THEN a ELSE b
Max(a, b) == IF a < b THEN b ELSE a

\* suns = [(width // 2, height // 2, min(width, height) // 4)]
DefaultSuns == << <<R(width \div 2), R(height \div 2), R(Min(width, height) \div 4)>> >>

\* dx*dx + dy*dy, the square of distance[y, x]
dist2(sun, p) ==
    LET dx == RSub(R(p[2]), sun[1])
        dy == RSub(R(p[1]), sun[2])
    IN  RAdd(RMul(dx, dx), RMul(dy, dy))

\* current_radius = current_radius_factor * max_radius
current_radius(sun) == RMul(current_radius_factor, sun[3])

\* Faulty variant: the full max_radius is processed whatever the factor is.
is_within_max_radius(sun, p) ==
    /\ RLe(R(0), sun[3])
    /\ RLe(dist2(sun, p), RMul(sun[3], sun[3]))

\* distance <= current_radius
is_within_current_radius(sun, p) ==
    /\ RLe(R(0), current_radius(sun))
    /\ RLe(dist2(sun, p), RMul(current_radius(sun), current_radius(sun)))

\* distance == 0
is_center(sun, p) == dist2(sun, p) = R(0)

\* Faulty variant: only the four orthogonal neighbours are adjacent.
is_adjacent_to_center_orthogonal(sun, p) ==
    RLt(R(0), dist2(sun, p)) /\ RLe(dist2(sun, p), R(1))

\* (distance > 0) & (distance <= np.sqrt(2))
is_adjacent_to_center(sun, p) == RLt(R(0), dist2(sun, p)) /\ RLe(dist2(sun, p), R(2))

and_condition(sun, p) == is_adjacent_to_center(sun, p) /\ is_within_current_radius(sun, p)

or_mask(sun, p) ==
    /\ is_within_current_radius(sun, p)
    /\ ~is_center(sun, p)
    /\ ~is_adjacent_to_center(sun, p)

Opacity(p, q, d2) == [p |-> p, q |-> q, d2 |-> d2]
Half == Opacity(Rat(1, 2), R(0), R(0))

\* opacity = max(0.0, 0.5 * (1.0 - dist / max_radius)), for max_radius > 0
gradient_opacity(sun, p) ==
    IF RLt(RMul(sun[3], sun[3]), dist2(sun, p))
    THEN Opacity(R(0), R(0), R(0))
    ELSE Opacity(Rat(1, 2), RDiv(R(-1), RMul(R(2), sun[3])), dist2(sun, p))

\* x <= b * sqrt(d2), decided on the squares
LeSurd(x, b, d2) ==
    IF RLe(R(0), b)
    THEN RLe(x, R(0)) \/ RLe(RMul(x, x), RMul(RMul(b, b), d2))
    ELSE RLe(x, R(0)) /\ RLe(RMul(RMul(b, b), d2), RMul(x, x))

\* The largest integer r with r * r <= n
RootFloor(n) == CHOOSE r \in 0..n : r * r <= n /\ n < (r + 1) * (r + 1)

\* The largest integer n with n <= q
Floor(q) == q[1] \div q[2]

\* int(a + b * sqrt(d2)) for a value between the channel values lo and hi;
\* with s <= sqrt(d2) <= s + 1 the value lies between a + b*s and a + b*(s + 1)
IntSurd(a, b, d2, lo, hi) ==
    LET s == RootFloor(Floor(d2))
        e1 == Floor(RAdd(a, RMul(b, R(s))))
        e2 == Floor(RAdd(a, RMul(b, R(s + 1))))
    IN  CHOOSE n \in Max(lo, Min(e1, e2))..Min(hi, Max(e1, e2)) :
            /\ LeSurd(RSub(R(n), a), b, d2)
            /\ ~LeSurd(RSub(R(n + 1), a), b, d2)

\* tuple(int(c1 * (1 - alpha) + c2 * alpha) for c1, c2 in zip(color1, color2))
blend_colors(color1, color2, alpha) ==
    [ch \in 1..3 |->
        IntSurd(RAdd(RMul(R(color1[ch]), RSub(R(1), alpha.p)), RMul(R(color2[ch]), alpha.p)),
                RSub(RMul(R(color2[ch]), alpha.q), RMul(R(color1[ch]), alpha.q)),
                alpha.d2,
                Min(color1[ch], color2[ch]), Max(color1[ch], color2[ch]))]

\* Faulty variant: every blend starts from the background colour.
existing_background(p) == bg_rgb

\* existing = img[y, x, :]
existing(p) == img[p]

\* The argument suns=None, kept as a list no caller can pass.
None == << <<>> >>

\* Suns the inputs are drawn from.
SunChoices ==
    { <<R(0), R(0), R(2)>>,
      <<R(0), R(2), R(3)>>,
      <<R(2), R(1), R(0)>> }

\* Lists of up to MaxSuns different suns.
SunLists ==
    {l \in SeqsUpTo(SunChoices, MaxSuns) :
        \A a, b \in 1..Len(l) : a # b => l[a] # l[b]}

SunInit ==
    /\ prog = "sun"
    /\ pc = "start"
    /\ width \in {0, MaxDim}
    /\ height \in {0, MaxDim}
    /\ suns \in {None} \cup SunLists
    /\ current_radius_factor \in {R(0), Rat(1, 2), R(1), Rat(3, 2)}
    /\ img = <<>>
    /\ sun_i = 1
    /\ pix = 0
    /\ TweenIdle /\ DrawIdle /\ BounceIdle /\ AllIdle /\ SampleIdle /\ SwarmIdle /\ AnimIdle

\* img = np.zeros(...); img[:, :, :] = bg_rgb; if suns is None: suns = [...]
SunCreate ==
    /\ prog \in {"sun", "anim"} /\ pc = "start"
    /\ img' = [p \in Pixels |-> bg_rgb]
    /\ suns' = IF suns = None THEN DefaultSuns ELSE suns
    /\ pc' = "sun"
    /\ UNCHANGED <<prog, width, height, current_radius_factor, sun_i, pix, nonSun, callVars>>

\* Faulty variant: the centre pixel is left to the blending passes.
SunBegin_no_centre ==
    /\ prog \in {"sun", "anim"} /\ pc = "sun"
    /\ sun_i <= Len(suns)
    /\ IF RLt(R(0), current_radius(suns[sun_i]))
       THEN /\ pc' = "and"
            /\ pix' = 0
            /\ UNCHANGED <<img, sun_i>>
       ELSE /\ sun_i' = sun_i + 1
            /\ UNCHANGED <<img, pc, pix>>
    /\ UNCHANGED <<prog, width, height, suns, current_radius_factor, nonSun, callVars>>

\* Top of: for cx, cy, max_radius in suns.  if current_radius > 0:
\* img[is_center] = center_rgb, then the two pixel loops; else the next sun
SunBegin ==
    /\ prog \in {"sun", "anim"} /\ pc = "sun"
    /\ sun_i <= Len(suns)
    /\ IF RLt(R(0), current_radius(suns[sun_i]))
       THEN /\ img' = [p \in Pixels |->
                          IF is_center(suns[sun_i], p) THEN center_rgb ELSE img[p]]
            /\ pc' = "and"
            /\ pix' = 0
            /\ UNCHANGED sun_i
       ELSE /\ sun_i' = sun_i + 1
            /\ UNCHANGED <<img, pc, pix>>
    /\ UNCHANGED <<prog, width, height, suns, current_radius_factor, nonSun, callVars>>

\* one pixel of the first loop: if and_condition[y, x]: blend at 50%
SunAnd ==
    /\ prog \in {"sun", "anim"} /\ pc = "and"
    /\ pix < width * height
    /\ LET p == PixelAt(pix)
       IN  img' = IF and_condition(suns[sun_i], p)
                  THEN [img EXCEPT ![p] = blend_colors(existing(p), center_rgb, Half)]
                  ELSE img
    /\ pix' = pix + 1
    /\ UNCHANGED <<prog, pc, width, height, suns, current_radius_factor, sun_i, nonSun, callVars>>

\* the first loop is exhausted: or_mask, then the second loop
SunAndEnd ==
    /\ prog \in {"sun", "anim"} /\ pc = "and"
    /\ pix >= width * height
    /\ pc' = "or"
    /\ pix' = 0
    /\ UNCHANGED <<prog, width, height, suns, current_radius_factor, img, sun_i, nonSun, callVars>>

\* one pixel of the second loop: if or_mask[y, x]: blend at the gradient opacity
SunOr ==
    /\ prog \in {"sun", "anim"} /\ pc = "or"
    /\ pix < width * height
    /\ LET p == PixelAt(pix)
       IN  img' = IF or_mask(suns[sun_i], p)
                  THEN [img EXCEPT ![p] = blend_colors(existing(p), center_rgb,
                                                       gradient_opacity(suns[sun_i], p))]
                  ELSE img
    /\ pix' = pix + 1
    /\ UNCHANGED <<prog, pc, width, height, suns, current_radius_factor, sun_i, nonSun, callVars>>

\* the second loop is exhausted: the next sun
SunOrEnd ==
    /\ prog \in {"sun", "anim"} /\ pc = "or"
    /\ pix >= width * height
    /\ pc' = "sun"
    /\ sun_i' = sun_i + 1
    /\ pix' = 0
    /\ UNCHANGED <<prog, width, height, suns, current_radius_factor, img, nonSun, callVars>>

\* return img
SunReturn ==
    /\ prog \in {"sun", "anim"} /\ pc = "sun"
    /\ sun_i > Len(suns)
    /\ pc' = IF prog = "anim" THEN "append" ELSE "done"
    /\ UNCHANGED <<prog, sunVars, nonSun, callVars>>

\* A second call of create_sun_frame with the same arguments (the list that
\* replaced suns=None is the list that replaces it again)
SunAgain ==
    /\ prog = "sun" /\ pc = "done" /\ call = 1
    /\ previous' = img
    /\ call' = 2
    /\ img' = <<>>
    /\ sun_i' = 1
    /\ pix' = 0
    /\ pc' = "start"
    /\ UNCHANGED <<prog, width, height, suns, current_radius_factor, nonSun>>

(***************************************************************************)
(* prompt7/boolean_algebra.py: animate_boolean_sun_gradient                *)
(* frame_count is the argument frames, anim_idx the loop variable          *)
(* frame_idx and anim_frames the list all_frames.                          *)
(***************************************************************************)
\* Faulty variant: the last frame stops one step short of 1.
anim_t_exclusive(f) == Rat(f, Max(1, frame_count))

\* t = frame_idx / (frames - 1) if frames > 1 else 1.0
anim_t(f) ==
    IF frame_count > 1 THEN Rat(f, frame_count - 1) ELSE R(1)

\* t_eased = t * t * (3 - 2 * t)
t_eased(t) == RMul(RMul(t, t), RSub(R(3), RMul(R(2), t)))

\* Sun lists the animation is called with.
AnimSuns == {None, << <<R(0), R(0), R(2)>>, <<R(0), R(2), R(3)>> >>}

AnimInit ==
    /\ prog = "anim"
    /\ pc = "begin"
    /\ width = MaxDim
    /\ height = MaxDim
    /\ suns \in AnimSuns
    /\ frame_count \in 0..MaxFrames
    /\ current_radius_factor = R(0)
    /\ img = <<>>
    /\ sun_i = 0
    /\ pix = 0
    /\ anim_idx = 0
    /\ anim_frames = <<>>
    /\ TweenIdle /\ DrawIdle /\ BounceIdle /\ AllIdle /\ SampleIdle /\ SwarmIdle

\* if suns is None: suns = [...]; all_frames = []
AnimBegin ==
    /\ prog = "anim" /\ pc = "begin"
    /\ suns' = IF suns = None THEN DefaultSuns ELSE suns
    /\ anim_frames' = <<>>
    /\ anim_idx' = 0
    /\ pc' = "loop"
    /\ UNCHANGED <<prog, width, height, current_radius_factor, img, sun_i, pix,
                   frame_count, nonAnim, callVars>>

\* for frame_idx in range(frames): the eased factor, then the call of
\* create_sun_frame with it
AnimFrame ==
    /\ prog = "anim" /\ pc = "loop"
    /\ anim_idx < frame_count
    /\ current_radius_factor' = t_eased(anim_t(anim_idx))
    /\ img' = <<>>
    /\ sun_i' = 1
    /\ pix' = 0
    /\ pc' = "start"
    /\ UNCHANGED <<prog, width, height, suns, animVars, nonAnim, callVars>>

\* all_frames.append(frame)
AnimAppend ==
    /\ prog = "anim" /\ pc = "append"
    /\ anim_frames' = Append(anim_frames, img)
    /\ anim_idx' = anim_idx + 1
    /\ pc' = "loop"
    /\ UNCHANGED <<prog, sunVars, frame_count, nonAnim, callVars>>

\* The loop is exhausted: im = ax.imshow(all_frames[0], ...), which raises
\* IndexError on an empty list
AnimShow ==
    /\ prog = "anim" /\ pc = "loop"
    /\ anim_idx >= frame_count
    /\ pc' = IF anim_frames = <<>> THEN "IndexError" ELSE "done"
    /\ UNCHANGED <<prog, sunVars, animVars, nonAnim, callVars>>

\* A second call of animate_boolean_sun_gradient with the same arguments
AnimAgain ==
    /\ prog = "anim" /\ pc = "done" /\ call = 1
    /\ previous' = anim_frames
    /\ call' = 2
    /\ anim_frames' = <<>>
    /\ anim_idx' = 0
    /\ current_radius_factor' = R(0)
    /\ img' = <<>>
    /\ sun_i' = 0
    /\ pix' = 0
    /\ pc' = "begin"
    /\ UNCHANGED <<prog, width, height, suns, frame_count, nonAnim>>

(***************************************************************************)
(* Properties of create_sun_frame                                          *)
(***************************************************************************)
SunDone == prog = "sun" /\ pc = "done"

IsInt(q) == q[2] = 1

\* C5: one sun on an integer pixel position, current_radius_factor = 1 and
\* max_radius > 0: the pixel at distance 0 has exactly the centre colour and
\* every pixel farther than max_radius has exactly the background colour.
C5_CentreAndOutside ==
    /\ SunDone
    /\ Len(suns) = 1
    /\ IsInt(suns[1][1]) /\ IsInt(suns[1][2])
    /\ current_radius_factor = R(1)
    /\ RLt(R(0), suns[1][3])
    =>
    \A p \in Pixels :
        /\ dist2(suns[1], p) = R(0) => img[p] = <<163, 56, 0>>
        /\ RLt(RMul(suns[1][3], suns[1][3]), dist2(suns[1], p)) => img[p] = <<255, 255, 255>>

C5_Witness ==
    /\ SunDone
    /\ suns = << <<R(0), R(0), R(2)>> >>
    /\ current_radius_factor = R(1)
    /\ width = MaxDim /\ height = MaxDim
    /\ img[<<0, 0>>] = <<163, 56, 0>>
    /\ img[<<2, 2>>] = <<255, 255, 255>>
    /\ img[<<0, 1>>] = <<209, 155, 127>>
    /\ img[<<0, 2>>] = <<255, 255, 255>>

\* The colour a pixel has after one sun has been processed on colour `base`.
AfterSun(sun, base, p) ==
    IF ~RLt(R(0), current_radius(sun)) THEN base
    ELSE IF dist2(sun, p) = R(0) THEN center_rgb
    ELSE IF RLe(dist2(sun, p), R(2)) /\ is_within_current_radius(sun, p)
         THEN blend_colors(base, center_rgb, Half)
    ELSE IF is_within_current_radius(sun, p)
         THEN blend_colors(base, center_rgb, gradient_opacity(sun, p))
    ELSE base

\* The suns of `list` applied to pixel p one after another, first to last.
RECURSIVE Composite(_, _, _)
Composite(list, k, p) ==
    IF k = 0 THEN bg_rgb ELSE AfterSun(list[k], Composite(list, k - 1, p), p)

Reverse(list) == [k \in DOMAIN list |-> list[Len(list) + 1 - k]]

\* C8: the suns are applied one after another in list order, each on the
\* pixel value left by the suns processed before it; the final colour of a
\* pixel covered by several suns depends on that order (witness: a frame that
\* differs from the frame of the reversed list).
C8_SequentialBlend ==
    SunDone => \A p \in Pixels : img[p] = Composite(suns, Len(suns), p)

C8_Witness ==
    /\ SunDone
    /\ Len(suns) = 2
    /\ \E p \in Pixels :
          /\ img[p] = Composite(suns, 2, p)
          /\ img[p] # Composite(Reverse(suns), 2, p)
          /\ is_within_current_radius(suns[1], p)
          /\ is_within_current_radius(suns[2], p)

\* The place of pixel p in: for y in range(height): for x in range(width)
PixelIndex(p) == p[1] * width + p[2]

\* 0 < d <= sqrt(2) and d <= R, for the squares d2 of d and r2 of R
AdjacentTier(d2, r2) == RLt(R(0), d2) /\ RLe(d2, R(2)) /\ RLe(d2, r2)

\* sqrt(2) < d <= R
GradientTier(d2, r2) == RLt(R(2), d2) /\ RLe(d2, r2)

\* 0.5 * (1 - d / max_radius), and 0 where that is negative
TierOpacity(max_radius, d2) ==
    IF RLt(RMul(max_radius, max_radius), d2)
    THEN Opacity(R(0), R(0), R(0))
    ELSE Opacity(Rat(1, 2), RDiv(Rat(-1, 2), max_radius), d2)

\* 0 <= o <= 0.5 for the opacity o = p + q * sqrt(d2)
InHalfRange(o) ==
    /\ LeSurd(RSub(R(0), o.p), o.q, o.d2)
    /\ LeSurd(RSub(o.p, Rat(1, 2)), RSub(R(0), o.q), o.d2)

\* The colour of pixel p while the sun at sun_i is processed: the colour the
\* earlier suns left, blended once when the loop of its tier has passed p.
TierColour(p, d2, r2) ==
    IF d2 = R(0) THEN center_rgb
    ELSE IF AdjacentTier(d2, r2) /\ (pc = "or" \/ PixelIndex(p) < pix)
         THEN blend_colors(Composite(suns, sun_i - 1, p), center_rgb, Half)
    ELSE IF GradientTier(d2, r2) /\ pc = "or" /\ PixelIndex(p) < pix
         THEN blend_colors(Composite(suns, sun_i - 1, p), center_rgb,
                           TierOpacity(suns[sun_i][3], d2))
    ELSE Composite(suns, sun_i - 1, p)

Beyond(sun, p) ==
    LET r == RMul(current_radius_factor, sun[3])
    IN  RLt(r, R(0)) \/ RLt(RMul(r, r), dist2(sun, p))

\* C22: while a sun is processed, every pixel farther than
\* current_radius_factor * max_radius from it keeps its colour; in the frame
\* returned, a pixel beyond that radius of every sun has the background
\* colour, and with current_radius_factor = 0 every pixel has it, the pixels
\* at the suns' centres included.
C22_OutsideUntouched ==
    /\ [][(pc \in {"sun", "and", "or"}) /\ sun_i <= Len(suns) =>
            (\A p \in Pixels : Beyond(suns[sun_i], p) => img'[p] = img[p])]_vars
    /\ [](SunDone =>
            /\ \A p \in Pixels :
                  (\A k \in DOMAIN suns : Beyond(suns[k], p)) => img[p] = <<255, 255, 255>>
            /\ current_radius_factor = R(0) =>
                  \A p \in Pixels : img[p] = <<255, 255, 255>>)

\* Factor 0.5 with the suns (0, 0, 2) and (2, 1, 0): the first has radius 1,
\* so its diagonal neighbour (1, 1) at distance sqrt(2) stays background while
\* (0, 1) is blended; the second has radius 0 and the pixel at its own centre
\* (row 1, column 2) stays background.
C22_Witness ==
    /\ SunDone
    /\ suns = << <<R(0), R(0), R(2)>>, <<R(2), R(1), R(0)>> >>
    /\ current_radius_factor = Rat(1, 2)
    /\ width = MaxDim /\ height = MaxDim
    /\ img[<<0, 0>>] = <<163, 56, 0>>
    /\ img[<<0, 1>>] = <<209, 155, 127>>
    /\ img[<<1, 1>>] = <<255, 255, 255>>
    /\ dist2(suns[2], <<1, 2>>) = R(0)
    /\ img[<<1, 2>>] = <<255, 255, 255>>

(***************************************************************************)
(* Properties of animate_boolean_sun_gradient                              *)
(***************************************************************************)
AnimDone == prog = "anim" /\ pc = "done"

\* The frame with every pixel in the background colour.
Background == [p \in Pixels |-> <<255, 255, 255>>]

\* The image create_boolean_sun_gradient returns for the suns: the frame at
\* current_radius_factor = 1.0, which is the factor of the state this is
\* evaluated in.
StaticImage == [p \in Pixels |-> Composite(suns, Len(suns), p)]

\* The step that calls create_sun_frame for the frame at anim_idx.
FrameCall == prog = "anim" /\ pc = "loop" /\ pc' = "start"

\* C23: with frames >= 2 the growth factor passed to create_sun_frame is 0
\* for the first frame, which is all background, and 1 for the last frame,
\* which is the static image of the same suns; the factor never decreases
\* from one frame to the next, so the pixels within the current radius of a
\* sun stay within it in the next frame; with frames = 1 the only frame is
\* taken at factor 1.
C23_GrowthFactor ==
    /\ [][FrameCall =>
            /\ anim_idx = 0 /\ frame_count >= 2 => current_radius_factor' = R(0)
            /\ anim_idx = frame_count - 1 => current_radius_factor' = R(1)
            /\ RLe(current_radius_factor, current_radius_factor')
            /\ \A k \in DOMAIN suns : \A p \in Pixels :
                  is_within_current_radius(suns[k], p) =>
                      is_within_current_radius(suns[k], p)']_vars
    /\ [](prog = "anim" /\ frame_count >= 2 /\ Len(anim_frames) >= 1 =>
            anim_frames[1] = Background)
    /\ [](AnimDone =>
            /\ Len(anim_frames) = frame_count
            /\ current_radius_factor = R(1)
            /\ anim_frames[frame_count] = StaticImage)

\* Three frames of the suns (0, 0, 2) and (0, 2, 3), at factors 0, 0.5 and 1:
\* the first is background, the second has the neighbour (0, 1) of the first
\* sun blended while (2, 2) is still outside the radius 1.5 of the second
\* sun, the third has (2, 2) blended at opacity 1/6.
C23_Witness ==
    /\ AnimDone
    /\ frame_count = 3
    /\ suns = << <<R(0), R(0), R(2)>>, <<R(0), R(2), R(3)>> >>
    /\ anim_frames[1] = Background
    /\ anim_frames[2][<<0, 1>>] = <<209, 155, 127>>
    /\ anim_frames[2][<<2, 2>>] = <<255, 255, 255>>
    /\ anim_frames[3][<<2, 2>>] = <<239, 221, 212>>
    /\ anim_frames[3] = StaticImage
    /\ current_radius_factor = R(1)

(***************************************************************************)
(* Validation of the configuration                                         *)
(***************************************************************************)
\* The call has not gone past its entry, or has raised an error there.
Rejected == pc \in {"start", "ValueError"}

\* C4: an invalid configuration is rejected with an error before anything is
\* generated: a negative radius starts no recursion and adds no circle, a
\* zero width or height creates no frame, and an empty pose list is not
\* interpolated.
C4_InvalidConfigRejected ==
    /\ prog = "draw" /\ RLt(radius, R(0)) => Rejected /\ patches = <<>>
    /\ prog = "sun" /\ (width = 0 \/ height = 0) => Rejected
    /\ prog = "tween" /\ poses = <<>> => Rejected

(***************************************************************************)
(* Determinism: a generator called twice with the same arguments           *)
(***************************************************************************)
\* The sequence a call returns (the patches added to the axes for "draw").
Output ==
    CASE prog = "tween" -> frames
      [] prog = "draw" -> patches
      [] prog = "bounce" -> bounce_frames
      [] prog = "all" -> all_frames
      [] prog = "sample" -> stacked
      [] prog = "swarm" -> all_positions
      [] prog = "sun" -> img
      [] prog = "anim" -> anim_frames

Init ==
    /\ call = 1
    /\ previous = <<>>
    /\ \/ DrawInit
       \/ TweenInit
       \/ BounceInit
       \/ AllInit
       \/ SampleInit
       \/ SwarmInit
       \/ SunInit
       \/ AnimInit

Next ==
    \/ TweenEmpty
    \/ TweenFirst
    \/ TweenStep
    \/ TweenKey
    \/ TweenReturn
    \/ TweenAgain
    \/ DrawPattern
    \/ DrawCircle
    \/ DrawRecurse
    \/ DrawLoopEnd
    \/ DrawReturn
    \/ DrawAgain
    \/ BounceAir
    \/ BounceSquash
    \/ BounceReturn
    \/ BounceAgain
    \/ AllCall
    \/ AllExtend
    \/ AllReturn
    \/ AllAgain
    \/ SampleRails
    \/ SampleCentreline
    \/ SampleReturn
    \/ SampleAgain
    \/ SwarmSetup
    \/ SwarmFrame
    \/ SwarmStack
    \/ SwarmAgain
    \/ SunCreate
    \/ SunBegin
    \/ SunAnd
    \/ SunAndEnd
    \/ SunOr
    \/ SunOrEnd
    \/ SunReturn
    \/ SunAgain
    \/ AnimBegin
    \/ AnimFrame
    \/ AnimAppend
    \/ AnimShow
    \/ AnimAgain

Spec == Init /\ [][Next]_vars

(***************************************************************************)
(* Termination: every step of a call uses up one of the steps its          *)
(* configuration leaves to it.                                             *)
(***************************************************************************)
\* The call has returned or has raised an error.
Terminated ==
    pc \in {"done", "ValueError", "ZeroDivisionError", "DivideByZero", "IndexError"}

\* Levels of recursion below a call of depth `iteration`.
Levels(iteration) == Max(0, max_iterations - iteration)

\* Steps of a call of _draw_recursive with n levels below it.
RECURSIVE TreeSteps(_)
TreeSteps(n) == IF n = 0 THEN 1 ELSE 2 + 4 * (1 + TreeSteps(n - 1))

\* Steps left to the pending call c.
CallSteps(c) ==
    IF c.k = 0 THEN TreeSteps(Levels(c.iteration))
    ELSE (5 - c.k) * (1 + TreeSteps(Levels(c.iteration + 1))) + 1

RECURSIVE StackSteps(_)
StackSteps(k) == IF k = 0 THEN 0 ELSE CallSteps(stack[k]) + StackSteps(k - 1)

\* Steps of create_sun_frame for one sun.
SunSteps(sun) ==
    IF RLt(R(0), current_radius(sun)) THEN 1 + 2 * (width * height + 1) ELSE 1

RECURSIVE SunsSteps(_, _)
SunsSteps(list, k) ==
    IF k > Len(list) THEN 0 ELSE SunSteps(list[k]) + SunsSteps(list, k + 1)

\* The list create_sun_frame works on once it has replaced suns=None.
DefaultedSuns == IF suns = None THEN DefaultSuns ELSE suns

\* Steps left to the running call of create_sun_frame.
SunRemaining ==
    IF pc = "start" THEN 2 + SunsSteps(DefaultedSuns, 1)
    ELSE IF pc = "sun" THEN 1 + SunsSteps(suns, sun_i)
    ELSE IF pc = "and"
    THEN 1 + SunsSteps(suns, sun_i + 1) + (width * height - pix)
           + 1 + (width * height + 1)
    ELSE 1 + SunsSteps(suns, sun_i + 1) + (width * height - pix) + 1

\* Steps of create_sun_frame called for frame f of the animation: the factor
\* is positive in every frame but the first of several.
RECURSIVE FrameSunsSteps(_, _, _)
FrameSunsSteps(list, f, k) ==
    IF k > Len(list) THEN 0
    ELSE (IF (f > 0 \/ frame_count <= 1) /\ list[k][3][1] > 0
          THEN 1 + 2 * (width * height + 1) ELSE 1)
         + FrameSunsSteps(list, f, k + 1)

\* Steps of the frames f, f + 1, ... of the animation: the call, the steps
\* of create_sun_frame, the append.
RECURSIVE FramesSteps(_, _)
FramesSteps(list, f) ==
    IF f >= frame_count THEN 0
    ELSE 1 + (2 + FrameSunsSteps(list, f, 1)) + 1 + FramesSteps(list, f + 1)

\* Steps left to the running call.
Remaining ==
    IF Terminated THEN 0
    ELSE CASE prog = "tween" ->
                 IF pc = "start"
                 THEN IF poses = <<>> THEN 1
                      ELSE 2 + (Len(poses) - 1) * (steps_between + 1)
                 ELSE 1 + (IF i >= Len(poses) - 1 THEN 0
                           ELSE (steps_between + 2 - step)
                                + (Len(poses) - 2 - i) * (steps_between + 1))
           [] prog = "draw" ->
                 IF pc = "start" THEN 2 + TreeSteps(Levels(0))
                 ELSE 1 + StackSteps(Len(stack))
           [] prog = "bounce" -> 1 + Max(0, air_steps + 1 - bounce_i)
           [] prog = "all" ->
                 1 + (Len(bounces) - bounce_k) * (all_air_steps + 3)
                   + (IF pc = "call" THEN all_air_steps + 3
                      ELSE IF pc = "air" THEN 2 + Max(0, air_steps + 1 - bounce_i)
                      ELSE 1)
           [] prog = "sample" -> 1 + Max(0, Len(segments) + 1 - seg_i)
           [] prog = "swarm" ->
                 IF pc = "setup" THEN 2 + Max(0, n_frames)
                 ELSE 1 + Max(0, n_frames - frame_idx)
           [] prog = "sun" -> SunRemaining
           [] prog = "anim" ->
                 IF pc = "begin" THEN 2 + FramesSteps(DefaultedSuns, 0)
                 ELSE IF pc = "loop" THEN 1 + FramesSteps(suns, anim_idx)
                 ELSE IF pc = "append" THEN 2 + FramesSteps(suns, anim_idx + 1)
                 ELSE SunRemaining + 2 + FramesSteps(suns, anim_idx + 1)

\* A step that enters _draw_recursive from a pending call enters it one level
\* deeper than that call.
DepthStep ==
    prog = "draw" /\ stack # <<>> /\ Len(stack') > Len(stack) =>
        stack'[Len(stack')].iteration = Top.iteration + 1

\* No pending call is deeper than max_iterations (than 0 when it is negative).
DepthBounded ==
    \A k \in DOMAIN stack : stack[k].iteration \in 0..Max(0, max_iterations)

\* C12: every call returns (or raises) after the number of steps its
\* configuration fixes, for every max_iterations including 0 and negative
\* values and every shrink_fraction including values >= 1: the depth of
\* _draw_recursive grows by exactly 1 per level and never passes
\* max_iterations, every step of a call leaves one step less to it, and no
\* step is left exactly when the call has returned.
C12_Terminates ==
    /\ [][DepthStep]_vars
    /\ [][call' = call => Remaining' = Remaining - 1]_vars
    /\ [](DepthBounded /\ Remaining >= 0 /\ (Remaining = 0 <=> Terminated))

\* The recursion has returned for a negative max_iterations and a
\* shrink_fraction above 1, after its only circle.
C12_Witness ==
    /\ prog = "draw" /\ pc = "done"
    /\ shrink_fraction = Rat(3, 2)
    /\ max_iterations = -1
    /\ Len(patches) = 1
    /\ Remaining = 0

====
